---------------------------- MODULE Spec2Model ----------------------------
(***************************************************************************)
(* Vehicle damage detection: the detection-result interpretation pipeline  *)
(* of detector.py (DamageDetector), as a state machine.                    *)
(*                                                                         *)
(* A request handler calls detect_damages or compare_images on the shared  *)
(* detector.  The detector keeps nothing between calls, so the state is    *)
(* the last request: its images, what the inference service answered, and  *)
(* what the call returned.                                                 *)
(*                                                                         *)
(* Numbers.  The inference service answers with floats.  The raw fields    *)
(* x, y, width, height are held here in HALF pixels (x = 9 is 4.5 px), so  *)
(* that centre - extent/2 is an exact multiple of a quarter pixel; these   *)
(* dyadic values are exact in binary floating point.  int() truncates      *)
(* toward zero.  bbox_area / img_area is a correctly rounded division of   *)
(* two integers, and for image areas far below 2^50 the float comparison   *)
(* ratio > 0.08 agrees with the exact comparison 100*area > 8*img_area.    *)
(* Confidence is held in percent.                                          *)
(***************************************************************************)
EXTENDS Integers, Sequences, FiniteSets

VARIABLES
    op,           \* the request served last: "none", "detect", "compare"
    layer,        \* the handler that served it: "api" (api.py) or "ui" (ui.py)
    images,       \* the images of the request, as <<[h, w]>> sizes, in argument order
    responses,    \* what client.infer answered, one entry per call made
    infer_calls,  \* which image each client.infer call was made on, in call order
    status,       \* of the detector call: "idle", "returned" or "raised"
    error,        \* the exception that left the detector call, "none" without one
    detections,   \* the list detect_damages returned
    comparison,   \* the dict compare_images returned
    report,       \* the summary the handler computed from the detection list
    renders,      \* the draw_detections calls of the handler, in call order
    detector,     \* the shared DamageDetector: its attributes and class tables
    frames,       \* concurrent handlers: the call each one is in, with its locals
    heap,         \* concurrent handlers: the detection list each call is building
    pc,           \* launcher (main.py): the statement the main process is at
    choice,       \* launcher: the launch mode read from the prompt
    pending,      \* launcher: the exception that is propagating, "none" without one
    api_process,  \* launcher: the multiprocessing.Process that runs run_api
    api_server,   \* launcher: the api.py subprocess that run_api starts
    output        \* launcher: what the launcher reported, in order

reqvars == <<op, layer, images, responses, infer_calls, status, error, detections,
             comparison, report, renders>>
convars == <<detector, frames, heap>>
launchvars == <<pc, choice, pending, api_process, api_server, output>>
vars == <<reqvars, convars, launchvars>>

---------------------------------------------------------------------------
(* Static tables of DamageDetector *)

DAMAGE_CLASSES ==
    { "bonnet-dent", "doorouter-dent", "doorouter-paint-trace", "doorouter-scratch",
      "fender-dent", "front-bumper-dent", "front-bumper-scratch", "Front-Windscreen-Damage",
      "Headlight-Damage", "Major-Rear-Bumper-Dent", "medium-Bodypanel-Dent", "paint-chip",
      "paint-trace", "pillar-dent", "quaterpanel-dent", "rear-bumper-dent",
      "rear-bumper-scratch", "Rear-windscreen-Damage", "roof-dent", "RunningBoard-Dent",
      "Sidemirror-Damage", "Signlight-Damage", "Taillight-Damage" }

\* faulty variant: the severe cost is entered as the moderate one
CostsSevereAsModerate(minor, moderate, severe) ==
    [s \in {"minor", "moderate", "severe"} |->
        IF s = "minor" THEN minor ELSE moderate]

Costs(minor, moderate, severe) ==
    [s \in {"minor", "moderate", "severe"} |->
        IF s = "minor" THEN minor ELSE IF s = "moderate" THEN moderate ELSE severe]

REPAIR_COSTS ==
    [c \in { "bonnet-dent", "doorouter-dent", "fender-dent", "front-bumper-dent",
             "pillar-dent", "quaterpanel-dent", "rear-bumper-dent", "roof-dent",
             "medium-Bodypanel-Dent", "Major-Rear-Bumper-Dent", "RunningBoard-Dent",
             "doorouter-scratch", "front-bumper-scratch", "rear-bumper-scratch",
             "doorouter-paint-trace", "paint-chip", "paint-trace",
             "Front-Windscreen-Damage", "Rear-windscreen-Damage", "Headlight-Damage",
             "Taillight-Damage", "Signlight-Damage", "Sidemirror-Damage" } |->
        CASE c = "bonnet-dent"             -> Costs(150, 400, 800)
          [] c = "doorouter-dent"          -> Costs(100, 350, 700)
          [] c = "fender-dent"             -> Costs(120, 380, 750)
          [] c = "front-bumper-dent"       -> Costs(100, 300, 600)
          [] c = "pillar-dent"             -> Costs(200, 500, 1000)
          [] c = "quaterpanel-dent"        -> Costs(150, 400, 800)
          [] c = "rear-bumper-dent"        -> Costs(100, 300, 600)
          [] c = "roof-dent"               -> Costs(200, 600, 1200)
          [] c = "medium-Bodypanel-Dent"   -> Costs(150, 400, 900)
          [] c = "Major-Rear-Bumper-Dent"  -> Costs(300, 700, 1500)
          [] c = "RunningBoard-Dent"       -> Costs(80, 250, 500)
          [] c = "doorouter-scratch"       -> Costs(50, 150, 400)
          [] c = "front-bumper-scratch"    -> Costs(50, 150, 350)
          [] c = "rear-bumper-scratch"     -> Costs(50, 150, 350)
          [] c = "doorouter-paint-trace"   -> Costs(60, 180, 450)
          [] c = "paint-chip"              -> Costs(40, 120, 300)
          [] c = "paint-trace"             -> Costs(50, 150, 400)
          [] c = "Front-Windscreen-Damage" -> Costs(200, 500, 1000)
          [] c = "Rear-windscreen-Damage"  -> Costs(200, 500, 1000)
          [] c = "Headlight-Damage"        -> Costs(150, 400, 800)
          [] c = "Taillight-Damage"        -> Costs(100, 300, 600)
          [] c = "Signlight-Damage"        -> Costs(80, 200, 400)
          [] c = "Sidemirror-Damage"       -> Costs(100, 300, 600)]

\* the default of REPAIR_COSTS.get(class_name, {}).get(severity, 100)
DEFAULT_COST == 100

---------------------------------------------------------------------------
(* _estimate_severity *)

\* thresholds on damage_ratio, in percent: 0.05 / 0.02 and 0.08 / 0.03
CRITICAL_SEVERE == 5
CRITICAL_MODERATE == 2
STANDARD_SEVERE == 8
STANDARD_MODERATE == 3

\* faulty variant: Headlight-Damage treated as critical too
critical_types_extended ==
    {"Major-Rear-Bumper-Dent", "Front-Windscreen-Damage", "Rear-windscreen-Damage",
     "Headlight-Damage"}

critical_types ==
    {"Major-Rear-Bumper-Dent", "Front-Windscreen-Damage", "Rear-windscreen-Damage"}

\* faulty variant: >= in place of >
RatioExceedsOrEquals(bbox_area, img_area, percent) ==
    bbox_area * 100 >= percent * img_area

\* damage_ratio > percent/100, with damage_ratio = bbox_area / img_area, img_area > 0
RatioExceeds(bbox_area, img_area, percent) ==
    bbox_area * 100 > percent * img_area

\* faulty variant: the two threshold pairs are exchanged between the branches
estimate_severity_exchanged(x1, y1, x2, y2, damage_class, img_shape) ==
    LET h == img_shape[1]
        w == img_shape[2]
        bbox_area == (x2 - x1) * (y2 - y1)
        img_area == h * w
    IN  IF damage_class \in critical_types
        THEN IF RatioExceeds(bbox_area, img_area, STANDARD_SEVERE) THEN "severe"
             ELSE IF RatioExceeds(bbox_area, img_area, STANDARD_MODERATE) THEN "moderate"
             ELSE "minor"
        ELSE IF RatioExceeds(bbox_area, img_area, CRITICAL_SEVERE) THEN "severe"
             ELSE IF RatioExceeds(bbox_area, img_area, CRITICAL_MODERATE) THEN "moderate"
             ELSE "minor"

estimate_severity(x1, y1, x2, y2, damage_class, img_shape) ==
    LET h == img_shape[1]
        w == img_shape[2]
        bbox_area == (x2 - x1) * (y2 - y1)
        img_area == h * w
    IN  IF damage_class \in critical_types
        THEN IF RatioExceeds(bbox_area, img_area, CRITICAL_SEVERE) THEN "severe"
             ELSE IF RatioExceeds(bbox_area, img_area, CRITICAL_MODERATE) THEN "moderate"
             ELSE "minor"
        ELSE IF RatioExceeds(bbox_area, img_area, STANDARD_SEVERE) THEN "severe"
             ELSE IF RatioExceeds(bbox_area, img_area, STANDARD_MODERATE) THEN "moderate"
             ELSE "minor"

---------------------------------------------------------------------------
(* detect_damages *)

\* faulty variant: floor, as num // den
IntFloor(num, den) == num \div den

\* int(num / den) for den > 0: truncation toward zero
IntTrunc(num, den) ==
    IF num >= 0 THEN num \div den ELSE -((-num) \div den)

\* faulty variant: the extent is not halved
CornerLowFullExtent(centre, extent) == IntTrunc(2 * centre - 2 * extent, 4)

\* int(centre - extent / 2) with centre and extent in half pixels
CornerLow(centre, extent) == IntTrunc(2 * centre - extent, 4)

\* int(centre + extent / 2) with centre and extent in half pixels
CornerHigh(centre, extent) == IntTrunc(2 * centre + extent, 4)

\* faulty variant: default 0, as in test_cost_estimation
CostLookupZeroDefault(class_name, severity) ==
    IF class_name \in DOMAIN REPAIR_COSTS
    THEN IF severity \in DOMAIN REPAIR_COSTS[class_name]
         THEN REPAIR_COSTS[class_name][severity] ELSE 0
    ELSE 0

\* self.REPAIR_COSTS.get(class_name, {}).get(severity, 100)
CostLookup(class_name, severity) ==
    IF class_name \in DOMAIN REPAIR_COSTS
    THEN IF severity \in DOMAIN REPAIR_COSTS[class_name]
         THEN REPAIR_COSTS[class_name][severity] ELSE DEFAULT_COST
    ELSE DEFAULT_COST

\* the body of the loop over result['predictions']
BuildDetection(pred, h, w) ==
    LET x1 == CornerLow(pred.x, pred.width)
        y1 == CornerLow(pred.y, pred.height)
        x2 == CornerHigh(pred.x, pred.width)
        y2 == CornerHigh(pred.y, pred.height)
        severity == estimate_severity(x1, y1, x2, y2, pred.class, <<h, w>>)
    IN  [bbox |-> <<x1, y1, x2, y2>>,
         confidence |-> pred.confidence,
         class |-> pred.class,
         severity |-> severity,
         estimated_cost |-> CostLookup(pred.class, severity)]

\* CONFIDENCE_THRESHOLD of config.py, in percent; detector.py never reads it
CONFIDENCE_THRESHOLD == 25

\* faulty variant: predictions below CONFIDENCE_THRESHOLD are dropped
DetectDamagesFiltered(image, response) ==
    IF response.raises
    THEN [raised |-> TRUE, error |-> response.error, value |-> <<>>]
    ELSE [raised |-> FALSE, error |-> "none",
          value |-> IF response.has_predictions
                    THEN LET kept == SelectSeq(response.predictions,
                                         LAMBDA q : q.confidence >= CONFIDENCE_THRESHOLD)
                         IN  [i \in 1..Len(kept) |->
                                 BuildDetection(kept[i], image.h, image.w)]
                    ELSE <<>>]

\* faulty variant: result['predictions'] without the membership test
DetectDamagesKeyError(image, response) ==
    IF response.raises
    THEN [raised |-> TRUE, error |-> response.error, value |-> <<>>]
    ELSE IF ~response.has_predictions
    THEN [raised |-> TRUE, error |-> "KeyError", value |-> <<>>]
    ELSE [raised |-> FALSE, error |-> "none",
          value |-> [i \in 1..Len(response.predictions) |->
                        BuildDetection(response.predictions[i], image.h, image.w)]]

\* faulty variant: the inference error is caught and an empty list returned
DetectDamagesSwallow(image, response) ==
    [raised |-> FALSE, error |-> "none",
     value |-> IF ~response.raises /\ response.has_predictions
               THEN [i \in 1..Len(response.predictions) |->
                        BuildDetection(response.predictions[i], image.h, image.w)]
               ELSE <<>>]

\* detect_damages(image) when client.infer answers `response`:
\* the exception of client.infer propagates; a result without the
\* 'predictions' key gives the empty list
DetectDamages(image, response) ==
    IF response.raises
    THEN [raised |-> TRUE, error |-> response.error, value |-> <<>>]
    ELSE [raised |-> FALSE, error |-> "none",
          value |-> IF response.has_predictions
                    THEN [i \in 1..Len(response.predictions) |->
                             BuildDetection(response.predictions[i], image.h, image.w)]
                    ELSE <<>>]

---------------------------------------------------------------------------
(* compare_images *)

\* pickup_classes.count(c), [d['class'] for d in return_damages].count(c)
CountClass(damages, c) ==
    Cardinality({i \in 1..Len(damages) : damages[i].class = c})

\* faulty variant: <= in place of <
IsNewOrEqualCount(d, pickup_damages, return_damages) ==
    \/ \A i \in 1..Len(pickup_damages) : pickup_damages[i].class # d.class
    \/ CountClass(pickup_damages, d.class) <= CountClass(return_damages, d.class)

\* faulty variant: "in pickup_classes and" in place of "not in pickup_classes or"
IsNewOnlyKnownClass(d, pickup_damages, return_damages) ==
    /\ \E i \in 1..Len(pickup_damages) : pickup_damages[i].class = d.class
    /\ CountClass(pickup_damages, d.class) < CountClass(return_damages, d.class)

\* faulty variant: membership of the whole detection, box included
IsNewByRecord(d, pickup_damages, return_damages) ==
    \/ \A i \in 1..Len(pickup_damages) : pickup_damages[i] # d
    \/ CountClass(pickup_damages, d.class) < CountClass(return_damages, d.class)

\* the condition of the list comprehension that builds new_damages
IsNew(d, pickup_damages, return_damages) ==
    \/ \A i \in 1..Len(pickup_damages) : pickup_damages[i].class # d.class
    \/ CountClass(pickup_damages, d.class) < CountClass(return_damages, d.class)

\* faulty variant: the kept positions in reverse order
NewPositionsReversed(pickup_damages, return_damages) ==
    LET pos == SelectSeq([i \in 1..Len(return_damages) |-> i],
                   LAMBDA i : IsNew(return_damages[i], pickup_damages, return_damages))
    IN  [k \in 1..Len(pos) |-> pos[Len(pos) + 1 - k]]

\* the positions of return_damages the comprehension keeps, in list order
NewPositions(pickup_damages, return_damages) ==
    SelectSeq([i \in 1..Len(return_damages) |-> i],
              LAMBDA i : IsNew(return_damages[i], pickup_damages, return_damages))

RECURSIVE SumCost(_)
SumCost(damages) ==
    IF damages = <<>> THEN 0
    ELSE damages[1].estimated_cost + SumCost(Tail(damages))

\* faulty variant: the first new damage is left out of the sum
TotalCostSkippingFirst(new_damages) ==
    IF new_damages = <<>> THEN 0 ELSE SumCost(Tail(new_damages))

\* sum(d['estimated_cost'] for d in new_damages)
TotalNewCost(new_damages) == SumCost(new_damages)

NoComparison ==
    [pickup_damages |-> <<>>, return_damages |-> <<>>, new_damages |-> <<>>,
     new_positions |-> <<>>, total_new_cost |-> 0,
     summary |-> [count |-> 0, cost |-> 0]]

\* The dict compare_images builds from the two detection lists.  new_damages
\* holds the very objects of return_damages the comprehension kept;
\* new_positions records which ones (their positions in return_damages).  The
\* summary string is held as the two numbers it interpolates.
CompareResult(pickup_damages, return_damages) ==
    LET pos == NewPositions(pickup_damages, return_damages)
        new_damages == [k \in 1..Len(pos) |-> return_damages[pos[k]]]
        total_new_cost == TotalNewCost(new_damages)
    IN  [pickup_damages |-> pickup_damages,
         return_damages |-> return_damages,
         new_damages |-> new_damages,
         new_positions |-> pos,
         total_new_cost |-> total_new_cost,
         summary |-> [count |-> Len(new_damages), cost |-> total_new_cost]]

\* faulty variant: both inferences are made before either result is looked at
CompareImagesBothCalled(pickup_img, return_img, pickup_resp, return_resp) ==
    LET pickup == DetectDamages(pickup_img, pickup_resp)
        return == DetectDamages(return_img, return_resp)
    IN  IF pickup.raised \/ return.raised
        THEN [raised |-> TRUE,
              error |-> IF pickup.raised THEN pickup.error ELSE return.error,
              calls |-> <<"pickup", "return">>, value |-> NoComparison]
        ELSE [raised |-> FALSE, error |-> "none", calls |-> <<"pickup", "return">>,
              value |-> CompareResult(pickup.value, return.value)]

\* compare_images(pickup_img, return_img) when client.infer answers
\* pickup_resp to the first call and return_resp to the second: `calls` are
\* the inference calls made, in order
CompareImages(pickup_img, return_img, pickup_resp, return_resp) ==
    LET pickup == DetectDamages(pickup_img, pickup_resp)
        return == DetectDamages(return_img, return_resp)
    IN  IF pickup.raised
        THEN [raised |-> TRUE, error |-> pickup.error,
              calls |-> <<"pickup">>, value |-> NoComparison]
        ELSE IF return.raised
        THEN [raised |-> TRUE, error |-> return.error,
              calls |-> <<"pickup", "return">>, value |-> NoComparison]
        ELSE [raised |-> FALSE, error |-> "none", calls |-> <<"pickup", "return">>,
              value |-> CompareResult(pickup.value, return.value)]

---------------------------------------------------------------------------
(* draw_detections *)

\* the pixels of an image: the uploaded picture and what was drawn on it since
Picture(image) == [h |-> image.h, w |-> image.w, marks |-> <<>>]

DefaultColors ==
    [s \in {"minor", "moderate", "severe"} |->
        IF s = "minor" THEN "yellow" ELSE IF s = "moderate" THEN "orange" ELSE "red"]

\* the color map the comparison handlers pass for the pickup image
GreenColors == [s \in {"minor", "moderate", "severe"} |-> "green"]

\* color_map.get(severity, 'red')
ColorOf(color_map, severity) ==
    IF severity \in DOMAIN color_map THEN color_map[severity] ELSE "red"

\* what the loop body draws for one detection: the outline, the filled label
\* strip above it (10 pixels wide per character of the label) and the label
DrawOne(det, color_map) ==
    LET color == ColorOf(color_map, det.severity)
        x1 == det.bbox[1]
        y1 == det.bbox[2]
        label == [class |-> det.class, percent |-> det.confidence]
    IN  << [kind |-> "outline", at |-> det.bbox, color |-> color, label |-> label],
           [kind |-> "strip", at |-> <<x1, y1 - 25, x1, y1>>, color |-> color,
            label |-> label],
           [kind |-> "text", at |-> <<x1 + 5, y1 - 22, x1 + 5, y1 - 22>>,
            color |-> "white", label |-> label] >>

RECURSIVE DrawAll(_, _)
DrawAll(dets, color_map) ==
    IF dets = <<>> THEN <<>>
    ELSE DrawOne(dets[1], color_map) \o DrawAll(Tail(dets), color_map)

\* faulty variant: ImageDraw.Draw(image), drawing on the argument itself
DrawDetectionsInPlace(picture, dets, color_map) ==
    LET drawn == [picture EXCEPT !.marks = picture.marks \o DrawAll(dets, color_map)]
    IN  [image |-> drawn, detections |-> dets, result |-> drawn]

\* draw_detections(image, detections, color_map): `image` and `detections`
\* are the two arguments as they are after the call, `result` the returned image
DrawDetections(picture, dets, color_map) ==
    LET img_copy == picture
        drawn == [img_copy EXCEPT !.marks = img_copy.marks \o DrawAll(dets, color_map)]
    IN  [image |-> picture, detections |-> dets, result |-> drawn]

\* one draw_detections call of a handler, with its arguments before the call
Render(picture, dets, color_map) ==
    [before |-> [image |-> picture, detections |-> dets],
     after |-> DrawDetections(picture, dets, color_map)]

---------------------------------------------------------------------------
(* The summaries of the API and UI handlers *)

Severities == {"minor", "moderate", "severe"}

CountSeverity(dets, s) == Cardinality({i \in 1..Len(dets) : dets[i].severity = s})

\* faulty variant: 'severe' counted with the test of 'moderate'
AggregateSevereMiscounted(dets) ==
    [total_damages |-> Len(dets),
     total_estimated_cost |-> SumCost(dets),
     severity_breakdown |->
        [s \in Severities |->
            CountSeverity(dets, IF s = "severe" THEN "moderate" ELSE s)]]

\* api.detect_damage: total_cost and response["summary"]
Aggregate(dets) ==
    [total_damages |-> Len(dets),
     total_estimated_cost |-> SumCost(dets),
     severity_breakdown |-> [s \in Severities |-> CountSeverity(dets, s)]]

\* ui.analyze_single_image: total_cost, severity_counts and json_data
UiAggregate(dets) ==
    [total_damages |-> Len(dets),
     total_estimated_cost |-> SumCost(dets),
     severity_breakdown |-> [s \in Severities |-> CountSeverity(dets, s)]]

NoReport ==
    [total_damages |-> 0, total_estimated_cost |-> 0,
     severity_breakdown |-> [s \in Severities |-> 0]]

---------------------------------------------------------------------------
(* The inputs: images and inference answers *)

\* largest |width| and |height| of a raw prediction on the small grid, in half pixels
MaxExtent == 10
\* longest prediction list of a compare_images inference answer
MaxDets == 2

SmallImage == [h |-> 10, w |-> 10]
VgaImage == [h |-> 480, w |-> 640]
Images == {SmallImage, VgaImage}

\* box centres of the small grid, in half pixels: 1 px and 4.5 px
Centres == {2, 9}

UNKNOWN_CLASS == "unlisted-damage"
ClassStrings == DAMAGE_CLASSES \cup {UNKNOWN_CLASS}

Pred(x, y, width, height, class, confidence) ==
    [x |-> x, y |-> y, width |-> width, height |-> height,
     class |-> class, confidence |-> confidence]

\* x = 200, y = 200, width = 100, height = 100
ScenarioPred(class) == Pred(400, 400, 200, 200, class, 90)

\* single predictions: every class string on a grid of small boxes that
\* includes zero, fractional and negative extents, and the 100 x 100 box
GridPreds ==
    { Pred(x, y, width, height, c, 90) :
        x \in Centres, y \in Centres,
        width \in -MaxExtent..MaxExtent, height \in -MaxExtent..MaxExtent,
        c \in ClassStrings }

DetectPreds == GridPreds \cup { ScenarioPred(c) : c \in ClassStrings }

\* predictions of the comparison runs: two classes, each in two variants that
\* differ in box, confidence and (on the small image) severity and cost
CompareClasses == {"front-bumper-dent", "Front-Windscreen-Damage"}
Variants == { [x |-> 9, y |-> 9, width |-> 2, height |-> 2, confidence |-> 10],
              [x |-> 9, y |-> 10, width |-> 6, height |-> 4, confidence |-> 90] }

WithVariant(class, v) == Pred(v.x, v.y, v.width, v.height, class, v.confidence)

ComparePreds == { WithVariant(c, v) : c \in CompareClasses, v \in Variants }

SeqsUpTo(S, n) == UNION { [1..k -> S] : k \in 0..n }

Ok(predictions) ==
    [raises |-> FALSE, error |-> "none", has_predictions |-> TRUE,
     predictions |-> predictions]
NoPredictionsKey ==
    [raises |-> FALSE, error |-> "none", has_predictions |-> FALSE,
     predictions |-> <<>>]
\* client.infer raises the exception e
InferenceError(e) ==
    [raises |-> TRUE, error |-> e, has_predictions |-> FALSE, predictions |-> <<>>]

\* two exceptions of the inference client
ErrorKinds == {"ConnectionError", "HTTPCallErrorError"}
InferenceErrors == { InferenceError(e) : e \in ErrorKinds }

DetectResponses ==
    { Ok(<<p>>) : p \in DetectPreds } \cup {Ok(<<>>), NoPredictionsKey}
        \cup InferenceErrors

CompareResponses ==
    { Ok(s) : s \in SeqsUpTo(ComparePreds, MaxDets) } \cup {NoPredictionsKey}
        \cup InferenceErrors

\* the single-image requests: every single prediction through the API
\* handler, and the prediction lists through both handlers
DetectInputs ==
    { [layer |-> "api", image |-> image, response |-> response] :
        image \in Images, response \in DetectResponses }
    \cup
    { [layer |-> l, image |-> SmallImage, response |-> response] :
        l \in {"api", "ui"}, response \in CompareResponses }

---------------------------------------------------------------------------
(* The shared detector and the calls of concurrent request handlers *)

\* detector = DamageDetector(api_key, model_id): the instance attributes set
\* by __init__ and the two class tables
InitialDetector ==
    [api_key |-> "ROBOFLOW_API_KEY", model_id |-> "ROBOFLOW_MODEL_ID",
     client |-> "InferenceHTTPClient",
     DAMAGE_CLASSES |-> DAMAGE_CLASSES, REPAIR_COSTS |-> REPAIR_COSTS]

\* two request handlers that run at the same time
Handlers == {"h1", "h2"}

\* what the inference service may answer to a concurrent call
ConcurrentLists ==
    { <<>>,
      << Pred(9, 9, 2, 2, "front-bumper-dent", 10) >>,
      << Pred(9, 10, 6, 4, "Front-Windscreen-Damage", 90),
         Pred(9, 9, 2, 2, "front-bumper-dent", 10) >> }

ConcurrentResponses ==
    { Ok(l) : l \in ConcurrentLists }
        \cup {NoPredictionsKey, InferenceError("ConnectionError")}

\* the detection lists a concurrent draw_detections call may be given
ConcurrentDetections ==
    { DetectDamages(SmallImage, Ok(l)).value : l \in ConcurrentLists }

IdleFrame ==
    [kind |-> "none", pc |-> "idle", answers |-> <<>>, i |-> 0,
     pickup |-> <<>>, dets |-> <<>>, canvas |-> Picture(SmallImage),
     raised |-> "none", result |-> <<>>]

\* faulty variant: the list is kept on the detector, self.detections = []
ListSlotShared(h) == "detector"

\* where `detections = []` of a detect_damages call lives: a local of the call
ListSlot(h) == h

\* the predictions the loop of detect_damages runs over
LoopPredictions(response) ==
    IF response.has_predictions THEN response.predictions ELSE <<>>

\* a handler enters detect_damages, compare_images or draw_detections
CBegin(h) ==
    /\ frames[h].pc = "idle"
    /\ \/ \E k \in {"detect", "compare"} :
             frames' = [frames EXCEPT ![h] = [IdleFrame EXCEPT !.kind = k, !.pc = "infer"]]
       \/ \E dets \in ConcurrentDetections :
             frames' = [frames EXCEPT ![h] =
                           [IdleFrame EXCEPT !.kind = "draw", !.pc = "draw",
                                             !.dets = dets, !.i = 1]]
    /\ UNCHANGED <<reqvars, detector, heap, launchvars>>

\* result = self.client.infer(...) answers or raises; detections = []
CInfer(h) ==
    /\ frames[h].pc = "infer"
    /\ \E response \in ConcurrentResponses :
          IF response.raises
          THEN /\ frames' = [frames EXCEPT ![h].pc = "raised",
                                           ![h].raised = response.error,
                                           ![h].answers = Append(@, response)]
               /\ heap' = heap
          ELSE /\ frames' = [frames EXCEPT ![h].pc = "parse", ![h].i = 1,
                                           ![h].answers = Append(@, response)]
               /\ heap' = [heap EXCEPT ![ListSlot(h)] = <<>>]
    /\ UNCHANGED <<reqvars, detector, launchvars>>

\* one turn of the loop over result['predictions']: detections.append(...)
CParseOne(h) ==
    LET f == frames[h]
        preds == LoopPredictions(f.answers[Len(f.answers)])
    IN  /\ f.pc = "parse"
        /\ f.i <= Len(preds)
        /\ heap' = [heap EXCEPT ![ListSlot(h)] =
                        Append(@, BuildDetection(preds[f.i], SmallImage.h, SmallImage.w))]
        /\ frames' = [frames EXCEPT ![h].i = f.i + 1]
        /\ UNCHANGED <<reqvars, detector, launchvars>>

\* return detections: the end of detect_damages, and in compare_images the
\* second detect_damages call or the diff that follows it
CReturnList(h) ==
    LET f == frames[h]
        preds == LoopPredictions(f.answers[Len(f.answers)])
        value == heap[ListSlot(h)]
    IN  /\ f.pc = "parse"
        /\ f.i > Len(preds)
        /\ frames' =
              IF f.kind = "detect"
              THEN [frames EXCEPT ![h].pc = "returned", ![h].result = value]
              ELSE IF Len(f.answers) = 1
              THEN [frames EXCEPT ![h].pc = "infer", ![h].pickup = value]
              ELSE [frames EXCEPT ![h].pc = "returned",
                                  ![h].result = CompareResult(f.pickup, value)]
        /\ UNCHANGED <<reqvars, detector, heap, launchvars>>

\* draw_detections: one turn of its loop on img_copy, or return img_copy
CDraw(h) ==
    LET f == frames[h]
    IN  /\ f.pc = "draw"
        /\ frames' =
              IF f.i <= Len(f.dets)
              THEN [frames EXCEPT ![h].i = f.i + 1,
                                  ![h].canvas.marks =
                                      @ \o DrawOne(f.dets[f.i], DefaultColors)]
              ELSE [frames EXCEPT ![h].pc = "returned", ![h].result = f.canvas]
        /\ UNCHANGED <<reqvars, detector, heap, launchvars>>

\* the handler has used the result or the exception of its call
CFinish(h) ==
    /\ frames[h].pc \in {"returned", "raised"}
    /\ frames' = [frames EXCEPT ![h] = IdleFrame]
    /\ UNCHANGED <<reqvars, detector, heap, launchvars>>

---------------------------------------------------------------------------
(* The state machine *)

\* the launcher before api_process = Process(target=run_api)
NoProcess ==
    [state |-> "none", started |-> FALSE, terminate_called |-> FALSE, joined |-> FALSE]

Init ==
    /\ op = "none"
    /\ layer = "none"
    /\ images = <<>>
    /\ responses = <<>>
    /\ infer_calls = <<>>
    /\ status = "idle"
    /\ error = "none"
    /\ detections = <<>>
    /\ comparison = NoComparison
    /\ report = NoReport
    /\ renders = <<>>
    /\ detector = InitialDetector
    /\ frames = [h \in Handlers |-> IdleFrame]
    /\ heap = [slot \in Handlers \cup {"detector"} |-> <<>>]
    /\ pc = "input"
    /\ choice = <<>>
    /\ pending = "none"
    /\ api_process = NoProcess
    /\ api_server = "none"
    /\ output = <<>>

\* a single-image request: api.detect_damage or ui.analyze_single_image calls
\* detector.detect_damages(image), then draws and summarises the detections
DetectRequest ==
    /\ status = "idle"
    /\ \E in \in DetectInputs :
        LET r == DetectDamages(in.image, in.response)
        IN  /\ op' = "detect"
            /\ layer' = in.layer
            /\ images' = <<in.image>>
            /\ responses' = <<in.response>>
            /\ infer_calls' = <<"image">>
            /\ status' = IF r.raised THEN "raised" ELSE "returned"
            /\ error' = r.error
            /\ detections' = r.value
            /\ comparison' = NoComparison
            /\ IF r.raised
               THEN /\ report' = NoReport
                    /\ renders' = <<>>
               ELSE /\ report' = IF in.layer = "api" THEN Aggregate(r.value)
                                 ELSE UiAggregate(r.value)
                    /\ renders' = <<Render(Picture(in.image), r.value, DefaultColors)>>
            /\ UNCHANGED <<convars, launchvars>>

\* a comparison request: api.compare_images or ui.compare_images_fn calls
\* detector.compare_images(pickup_img, return_img), then draws the pickup
\* damages in green and the new damages on the return image
CompareRequest ==
    /\ status = "idle"
    /\ \E l \in {"api", "ui"},
          pickup_resp \in CompareResponses, return_resp \in CompareResponses :
        LET r == CompareImages(SmallImage, SmallImage, pickup_resp, return_resp)
        IN  /\ op' = "compare"
            /\ layer' = l
            /\ images' = <<SmallImage, SmallImage>>
            /\ responses' = SubSeq(<<pickup_resp, return_resp>>, 1, Len(r.calls))
            /\ infer_calls' = r.calls
            /\ status' = IF r.raised THEN "raised" ELSE "returned"
            /\ error' = r.error
            /\ detections' = <<>>
            /\ comparison' = r.value
            /\ report' = NoReport
            /\ renders' =
                  IF r.raised THEN <<>>
                  ELSE << Render(Picture(SmallImage), r.value.pickup_damages, GreenColors),
                          Render(Picture(SmallImage), r.value.new_damages, DefaultColors) >>
            /\ UNCHANGED <<convars, launchvars>>

\* the handler has answered its request; the detector keeps nothing of it
RequestDone ==
    /\ status # "idle"
    /\ op' = "none"
    /\ layer' = "none"
    /\ images' = <<>>
    /\ responses' = <<>>
    /\ infer_calls' = <<>>
    /\ status' = "idle"
    /\ error' = "none"
    /\ detections' = <<>>
    /\ comparison' = NoComparison
    /\ report' = NoReport
    /\ renders' = <<>>
    /\ UNCHANGED <<convars, launchvars>>

Next == DetectRequest \/ CompareRequest \/ RequestDone

Spec == Init /\ [][Next]_vars

ConcurrentNext ==
    \E h \in Handlers :
        CBegin(h) \/ CInfer(h) \/ CParseOne(h) \/ CReturnList(h) \/ CDraw(h) \/ CFinish(h)

\* several request handlers calling the shared detector, interleaved
SpecConcurrent == Init /\ [][ConcurrentNext]_vars

---------------------------------------------------------------------------
(* The launcher: main.py *)

\* what the user types at the prompt, as a list of characters
RawInputs ==
    { <<>>, <<" ">>, <<"1">>, <<"2">>, <<"3">>, <<"4">>, <<"5">>,
      <<" ", "3">>, <<"3", " ">>, <<" ", "1", " ">>, <<"3", "3">> }

RECURSIVE LStrip(_)
LStrip(text) ==
    IF text # <<>> /\ Head(text) = " " THEN LStrip(Tail(text)) ELSE text

RECURSIVE RStrip(_)
RStrip(text) ==
    IF text # <<>> /\ text[Len(text)] = " "
    THEN RStrip(SubSeq(text, 1, Len(text) - 1)) ELSE text

\* str.strip()
Strip(text) == RStrip(LStrip(text))

\* input(...).strip() or "3"
ReadChoice(raw) == IF Strip(raw) = <<>> THEN <<"3">> ELSE Strip(raw)

\* the statements of main that are outside every try block
OutsideTry ==
    {"input", "dispatch", "ui_only", "api_only", "tests", "create", "start", "sleep"}

\* the statements of the finally block
InFinally == {"terminate", "join"}

\* choice = input("Enter choice (1-4) [3]: ").strip() or "3"
MainInput ==
    /\ pc = "input"
    /\ \/ \E raw \in RawInputs :
              /\ choice' = ReadChoice(raw)
              /\ pc' = "dispatch"
              /\ UNCHANGED pending
       \/ /\ pending' = "EOFError"
          /\ pc' = "main_raised"
          /\ UNCHANGED choice
    /\ UNCHANGED <<api_process, api_server, output>>
    /\ UNCHANGED <<reqvars, convars>>

\* the if / elif chain on choice, with the messages of the branch taken
MainDispatch ==
    /\ pc = "dispatch"
    /\ \/ /\ choice = <<"1">>
          /\ output' = Append(output, "Launching UI")
          /\ pc' = "ui_only"
       \/ /\ choice = <<"2">>
          /\ output' = Append(output, "Launching API")
          /\ pc' = "api_only"
       \/ /\ choice = <<"3">>
          /\ output' = Append(output, "Launching UI + API")
          /\ pc' = "create"
       \/ /\ choice = <<"4">>
          /\ output' = Append(output, "Running tests")
          /\ pc' = "tests"
       \/ /\ choice \notin {<<"1">>, <<"2">>, <<"3">>, <<"4">>}
          /\ output' = Append(output, "Invalid choice")
          /\ pc' = "main_returned"
    /\ UNCHANGED <<choice, pending, api_process, api_server>>
    /\ UNCHANGED <<reqvars, convars>>

\* modes 1, 2 and 4: one subprocess.run in the main process, which
\* returns whatever the exit code, or raises OSError
MainRunOnly ==
    /\ pc \in {"ui_only", "api_only", "tests"}
    /\ \/ /\ pc' = "main_returned"
          /\ UNCHANGED pending
       \/ /\ pending' = "OSError"
          /\ pc' = "main_raised"
    /\ UNCHANGED <<choice, api_process, api_server, output>>
    /\ UNCHANGED <<reqvars, convars>>

\* api_process = Process(target=run_api)
MainCreate ==
    /\ pc = "create"
    /\ api_process' = [NoProcess EXCEPT !.state = "initial"]
    /\ pc' = "start"
    /\ UNCHANGED <<choice, pending, api_server, output>>
    /\ UNCHANGED <<reqvars, convars>>

\* api_process.start()
MainStart ==
    /\ pc = "start"
    /\ api_process' = [api_process EXCEPT !.state = "alive", !.started = TRUE]
    /\ pc' = "sleep"
    /\ UNCHANGED <<choice, pending, api_server, output>>
    /\ UNCHANGED <<reqvars, convars>>

\* time.sleep(2) has elapsed
MainSleep ==
    /\ pc = "sleep"
    /\ pc' = "run_ui"
    /\ UNCHANGED <<choice, pending, api_process, api_server, output>>
    /\ UNCHANGED <<reqvars, convars>>

\* try: run_ui() -- the UI exits, or subprocess.run raises; the finally
\* block is entered either way
MainRunUi ==
    /\ pc = "run_ui"
    /\ \E outcome \in {"none", "OSError"} : pending' = outcome
    /\ pc' = "terminate"
    /\ UNCHANGED <<choice, api_process, api_server, output>>
    /\ UNCHANGED <<reqvars, convars>>

\* finally: api_process.terminate() -- SIGTERM to the process if it is alive
MainTerminate ==
    /\ pc = "terminate"
    /\ api_process' =
          [api_process EXCEPT !.terminate_called = TRUE,
                              !.state = IF @ = "alive" THEN "signalled" ELSE @]
    /\ pc' = "join"
    /\ UNCHANGED <<choice, pending, api_server, output>>
    /\ UNCHANGED <<reqvars, convars>>

\* api_process.join() returns once the process has ended; main then returns,
\* or the exception of the try block propagates
MainJoin ==
    /\ pc = "join"
    /\ api_process.state = "ended"
    /\ api_process' = [api_process EXCEPT !.joined = TRUE]
    /\ pc' = IF pending = "none" THEN "main_returned" ELSE "main_raised"
    /\ UNCHANGED <<choice, pending, api_server, output>>
    /\ UNCHANGED <<reqvars, convars>>

\* KeyboardInterrupt raised in the main process while it is in main: outside
\* the try block and inside the finally block it leaves main at once; inside
\* the try block it enters the finally block
Interrupt ==
    /\ pc \in OutsideTry \cup InFinally \cup {"run_ui"}
    /\ pending' = "KeyboardInterrupt"
    /\ pc' = IF pc = "run_ui" THEN "terminate" ELSE "main_raised"
    /\ UNCHANGED <<choice, api_process, api_server, output>>
    /\ UNCHANGED <<reqvars, convars>>

\* if __name__ == "__main__": main() returned, or raised: KeyboardInterrupt
\* is caught and reported, any other exception ends the script with a traceback
ScriptEnd ==
    /\ pc \in {"main_returned", "main_raised"}
    /\ output' = IF pending = "KeyboardInterrupt" THEN Append(output, "Shutting down")
                 ELSE IF pending # "none" THEN Append(output, "Traceback")
                 ELSE output
    /\ pending' = "none"
    /\ pc' = "done"
    /\ UNCHANGED <<choice, api_process, api_server>>
    /\ UNCHANGED <<reqvars, convars>>

\* in the API process: run_api calls subprocess.run([sys.executable, "api.py"])
ApiServerStarts ==
    /\ api_process.state = "alive"
    /\ api_server = "none"
    /\ api_server' = "running"
    /\ UNCHANGED <<pc, choice, pending, api_process, output>>
    /\ UNCHANGED <<reqvars, convars>>

\* api.py exits by itself
ApiServerExits ==
    /\ api_server = "running"
    /\ api_server' = "exited"
    /\ UNCHANGED <<pc, choice, pending, api_process, output>>
    /\ UNCHANGED <<reqvars, convars>>

\* the API process ends: run_api returned because api.py exited, or the
\* process was killed by the SIGTERM of terminate()
ApiProcessEnds ==
    /\ \/ api_process.state = "alive" /\ api_server = "exited"
       \/ api_process.state = "signalled"
    /\ api_process' = [api_process EXCEPT !.state = "ended"]
    /\ UNCHANGED <<pc, choice, pending, api_server, output>>
    /\ UNCHANGED <<reqvars, convars>>

LauncherNext ==
    \/ MainInput \/ MainDispatch \/ MainRunOnly
    \/ MainCreate \/ MainStart \/ MainSleep \/ MainRunUi
    \/ MainTerminate \/ MainJoin \/ Interrupt \/ ScriptEnd
    \/ ApiServerStarts \/ ApiServerExits \/ ApiProcessEnds

\* one run of the launcher script
SpecLauncher == Init /\ [][LauncherNext]_vars

---------------------------------------------------------------------------
(* Properties of compare_images *)

CompareReturned == op = "compare" /\ status = "returned"

\* the positions of return_damages whose objects new_damages holds
NewSet == { comparison.new_positions[k] : k \in 1..Len(comparison.new_positions) }

ClassPositions(damages, c) == { i \in 1..Len(damages) : damages[i].class = c }

\* how many detections of the class of damages[i] stand at or before position i
Rank(damages, i) ==
    Cardinality({ j \in ClassPositions(damages, damages[i].class) : j <= i })

\* C1: for every class C with p pickup and r return detections, the first
\* min(p, r) return-side detections of C are pre-existing and new_damages holds
\* exactly the remaining max(r - p, 0) ones; pickup=[A], return=[A,A] gives
\* only the second A.
C1_FirstOccurrencesPreexisting ==
    CompareReturned =>
        \A c \in ClassStrings :
            LET p == CountClass(comparison.pickup_damages, c)
                R == ClassPositions(comparison.return_damages, c)
            IN  /\ NewSet \cap R = { i \in R : Rank(comparison.return_damages, i) > p }
                /\ CountClass(comparison.new_damages, c) =
                       IF Cardinality(R) > p THEN Cardinality(R) - p ELSE 0

\* C2: a class that occurs in pickup at least as often as in return
\* contributes no return-side detection to new_damages.
C2_NoNewWhenPickupCovers ==
    CompareReturned =>
        \A c \in ClassStrings :
            CountClass(comparison.pickup_damages, c)
                >= CountClass(comparison.return_damages, c)
            => /\ NewSet \cap ClassPositions(comparison.return_damages, c) = {}
               /\ CountClass(comparison.new_damages, c) = 0

\* pickup=[A,A], return=[A] was compared and nothing is new
C2_Witness ==
    /\ CompareReturned
    /\ Len(comparison.pickup_damages) = 2
    /\ Len(comparison.return_damages) = 1
    /\ comparison.pickup_damages[1].class = comparison.return_damages[1].class
    /\ comparison.pickup_damages[2].class = comparison.return_damages[1].class
    /\ comparison.new_damages = <<>>

\* C3: every return-side detection of a class that does not occur in pickup
\* is in new_damages.
C3_AbsentClassAllNew ==
    CompareReturned =>
        \A c \in ClassStrings :
            LET R == ClassPositions(comparison.return_damages, c)
            IN  (CountClass(comparison.pickup_damages, c) = 0 /\ R # {})
                => /\ R \subseteq NewSet
                   /\ CountClass(comparison.new_damages, c) = Cardinality(R)

\* pickup=[], return=[B] was compared and new_damages=[B]
C3_Witness ==
    /\ CompareReturned
    /\ comparison.pickup_damages = <<>>
    /\ Len(comparison.return_damages) = 1
    /\ comparison.new_damages = comparison.return_damages

RECURSIVE SumAt(_, _)
SumAt(damages, n) ==
    IF n = 0 THEN 0 ELSE SumAt(damages, n - 1) + damages[n].estimated_cost

\* C4: total_new_cost is the sum of estimated_cost over the detections of
\* new_damages (0 when it is empty), and the count in the summary is the
\* length of new_damages.
C4_TotalIsSumOfNew ==
    CompareReturned =>
        /\ comparison.total_new_cost =
               SumAt(comparison.new_damages, Len(comparison.new_damages))
        /\ comparison.new_damages = <<>> => comparison.total_new_cost = 0
        /\ comparison.summary.count = Len(comparison.new_damages)

\* with damages at pickup, two new damages of different cost were summed
C4_Witness ==
    /\ CompareReturned
    /\ comparison.pickup_damages # <<>>
    /\ Len(comparison.new_damages) = 2
    /\ comparison.new_damages[1].estimated_cost # comparison.new_damages[2].estimated_cost
    /\ comparison.total_new_cost = comparison.new_damages[1].estimated_cost
                                    + comparison.new_damages[2].estimated_cost

\* the prediction lists with the class sequence of `predictions` and any boxes
\* and confidences
SameClasses(predictions) ==
    { [i \in 1..Len(predictions) |-> WithVariant(predictions[i].class, vs[i])] :
        vs \in [1..Len(predictions) -> Variants] }

\* C5: two runs whose pickup lists have the same class sequence and whose
\* return lists have the same class sequence select the same return-list
\* positions into new_damages, whatever the boxes, confidences and severities.
C5_OnlyClassesDecide ==
    CompareReturned =>
        \A image \in Images :
        \A p2 \in SameClasses(responses[1].predictions) :
        \A r2 \in SameClasses(responses[2].predictions) :
            NewPositions(DetectDamages(image, Ok(p2)).value,
                         DetectDamages(image, Ok(r2)).value)
                = comparison.new_positions

\* the same class was seen once in each image with different boxes,
\* confidences and severities, and it was not reported as new
C5_Witness ==
    /\ CompareReturned
    /\ Len(comparison.pickup_damages) = 1
    /\ Len(comparison.return_damages) = 1
    /\ comparison.pickup_damages[1].class = comparison.return_damages[1].class
    /\ comparison.pickup_damages[1].bbox # comparison.return_damages[1].bbox
    /\ comparison.pickup_damages[1].severity # comparison.return_damages[1].severity
    /\ comparison.pickup_damages[1].confidence # comparison.return_damages[1].confidence
    /\ comparison.new_positions = <<>>

---------------------------------------------------------------------------
(* Properties of detect_damages and _estimate_severity *)

\* every detection built in the current request, with the image it was built for
Built ==
    IF status # "returned" THEN {}
    ELSE IF op = "detect"
    THEN { [image |-> images[1], det |-> detections[i]] : i \in 1..Len(detections) }
    ELSE { [image |-> images[1], det |-> comparison.pickup_damages[i]] :
             i \in 1..Len(comparison.pickup_damages) }
         \cup
         { [image |-> images[2], det |-> comparison.return_damages[i]] :
             i \in 1..Len(comparison.return_damages) }

BoxArea(det) == (det.bbox[3] - det.bbox[1]) * (det.bbox[4] - det.bbox[2])
ImageArea(image) == image.h * image.w

CriticalNames ==
    {"Major-Rear-Bumper-Dent", "Front-Windscreen-Damage", "Rear-windscreen-Damage"}

\* the tier for ratio = area / img with thresholds hi% and lo%, strict
Tier(area, img, hi, lo) ==
    IF area * 100 > hi * img THEN "severe"
    ELSE IF area * 100 > lo * img THEN "moderate"
    ELSE "minor"

\* C6: for a class outside the critical set the severity is severe iff
\* ratio > 0.08, moderate iff 0.03 < ratio <= 0.08, minor iff ratio <= 0.03;
\* a ratio of exactly 0.08 or 0.03 gives the lower tier.
C6_StandardThresholds ==
    \A b \in Built :
        b.det.class \notin CriticalNames =>
            LET a == BoxArea(b.det)
                img == ImageArea(b.image)
            IN  /\ b.det.severity = "severe" <=> a * 100 > 8 * img
                /\ b.det.severity = "moderate" <=> (a * 100 > 3 * img /\ a * 100 <= 8 * img)
                /\ b.det.severity = "minor" <=> a * 100 <= 3 * img

\* a standard-class box of ratio exactly 0.08 was rated moderate
C6_Witness ==
    \E b \in Built :
        /\ b.det.class \notin CriticalNames
        /\ BoxArea(b.det) * 100 = 8 * ImageArea(b.image)
        /\ b.det.severity = "moderate"

\* C7: the thresholds are 0.05 / 0.02 exactly for Major-Rear-Bumper-Dent,
\* Front-Windscreen-Damage and Rear-windscreen-Damage, and 0.08 / 0.03 for
\* every other class string, listed in DAMAGE_CLASSES or not.
C7_CriticalSetThresholds ==
    \A b \in Built :
        b.det.severity =
            IF b.det.class \in CriticalNames
            THEN Tier(BoxArea(b.det), ImageArea(b.image), 5, 2)
            ELSE Tier(BoxArea(b.det), ImageArea(b.image), 8, 3)

\* the same box was rated severe for a critical class and moderate for a
\* standard class
C7_Witness ==
    \E b1 \in Built, b2 \in Built :
        /\ b1.det.class \in CriticalNames
        /\ b2.det.class \notin CriticalNames
        /\ b1.det.bbox = b2.det.bbox
        /\ b1.image = b2.image
        /\ b1.det.severity = "severe"
        /\ b2.det.severity = "moderate"

\* C8: a zero-area or degenerate box (x2 <= x1 or y2 <= y1, both inverted
\* included) is rated minor for every class.
C8_DegenerateIsMinor ==
    \A b \in Built :
        (b.det.bbox[3] <= b.det.bbox[1] \/ b.det.bbox[4] <= b.det.bbox[2])
            => b.det.severity = "minor"

\* C9: the cost of a detection of one of the 23 classes is the REPAIR_COSTS
\* entry of its class and severity, every class of DAMAGE_CLASSES has entries
\* for the three severities, and the cost of a class absent from REPAIR_COSTS
\* is 100 for every severity.
C9_CostLookup ==
    /\ Cardinality(DAMAGE_CLASSES) = 23
    /\ \A c \in DAMAGE_CLASSES :
          /\ c \in DOMAIN REPAIR_COSTS
          /\ DOMAIN REPAIR_COSTS[c] = {"minor", "moderate", "severe"}
    /\ \A b \in Built :
          /\ b.det.class \in DAMAGE_CLASSES
                => b.det.estimated_cost = REPAIR_COSTS[b.det.class][b.det.severity]
          /\ b.det.class \notin DOMAIN REPAIR_COSTS => b.det.estimated_cost = 100

\* a severe detection of a class without a cost entry was priced 100
C9_Witness ==
    \E b \in Built :
        /\ b.det.class \notin DOMAIN REPAIR_COSTS
        /\ b.det.severity = "severe"
        /\ b.det.estimated_cost = 100

\* the request of the scenario: a 640x480 image and the single prediction
\* front-bumper-dent, x=200, y=200, width=100, height=100 (in half pixels)
ScenarioRequest ==
    /\ op = "detect"
    /\ images = <<[h |-> 480, w |-> 640]>>
    /\ responses = << [raises |-> FALSE, error |-> "none", has_predictions |-> TRUE,
                       predictions |-> << [x |-> 400, y |-> 400, width |-> 200,
                                           height |-> 200, class |-> "front-bumper-dent",
                                           confidence |-> 90] >>] >>

\* C10: for a 640x480 image and one prediction front-bumper-dent with x=200,
\* y=200, width=100, height=100, detect_damages returns one detection with
\* bbox [150,150,250,250], severity moderate and estimated_cost 300.
C10_Scenario ==
    ScenarioRequest =>
        /\ status = "returned"
        /\ Len(detections) = 1
        /\ detections[1].bbox = <<150, 150, 250, 250>>
        /\ detections[1].class = "front-bumper-dent"
        /\ detections[1].severity = "moderate"
        /\ detections[1].estimated_cost = 300

\* the scenario's request was served
C10_Witness ==
    /\ ScenarioRequest
    /\ status = "returned"
    /\ detections[1].bbox = <<150, 150, 250, 250>>
    /\ detections[1].estimated_cost = 300

---------------------------------------------------------------------------
(* Properties of the box conversion and of the detection list *)

\* every detection built in the current request with the raw prediction and
\* the image it was built from
BuiltFrom ==
    IF status # "returned" THEN {}
    ELSE IF op = "detect"
    THEN { [image |-> images[1], pred |-> responses[1].predictions[i],
            det |-> detections[i]] :
             i \in 1..Len(detections) }
    ELSE { [image |-> images[1], pred |-> responses[1].predictions[i],
            det |-> comparison.pickup_damages[i]] :
             i \in 1..Len(comparison.pickup_damages) }
         \cup
         { [image |-> images[2], pred |-> responses[2].predictions[i],
            det |-> comparison.return_damages[i]] :
             i \in 1..Len(comparison.return_damages) }

\* Python's round(num / den) for den > 0: to nearest, halves to even
PyRound(num, den) ==
    LET q == num \div den
        r == num % den
    IN  IF 2 * r < den THEN q
        ELSE IF 2 * r > den THEN q + 1
        ELSE IF q % 2 = 0 THEN q ELSE q + 1

\* the four centre-form expressions of a raw prediction, in quarter pixels:
\* x - width/2, y - height/2, x + width/2, y + height/2
Quarters(pred) ==
    << 2 * pred.x - pred.width, 2 * pred.y - pred.height,
       2 * pred.x + pred.width, 2 * pred.y + pred.height >>

\* C11: each corner coordinate is the rounded value of its centre-form
\* expression, x1 = round(x - width/2) and so on, also for fractional and
\* negative values.
C11_CornersRounded ==
    \A b \in BuiltFrom :
        \A k \in 1..4 : b.det.bbox[k] = PyRound(Quarters(b.pred)[k], 4)

\* integer c is n/4 with the fraction dropped (toward zero)
TruncatesTo(c, n) ==
    IF n >= 0 THEN 4 * c <= n /\ n < 4 * c + 4
    ELSE 4 * c >= n /\ n > 4 * c - 4

\* C11 as amended: each corner coordinate is its centre-form expression
\* truncated toward zero, x1 = int(x - width/2) and so on.
C11_CornersTruncated ==
    \A b \in BuiltFrom :
        \A k \in 1..4 : TruncatesTo(b.det.bbox[k], Quarters(b.pred)[k])

\* x - width/2 = -1.5 became x1 = -1, where rounding gives -2
C11_Witness ==
    \E b \in BuiltFrom :
        /\ Quarters(b.pred)[1] = -6
        /\ b.det.bbox[1] = -1
        /\ PyRound(Quarters(b.pred)[1], 4) = -2

\* C12: every detection has x1 < x2 and y1 < y2, for every raw prediction the
\* inference service can return, widths and heights below one pixel included
\* (stated here for the predictions of positive width and height).
C12_BoxProper ==
    \A b \in BuiltFrom :
        (b.pred.width > 0 /\ b.pred.height > 0)
            => (b.det.bbox[1] < b.det.bbox[3] /\ b.det.bbox[2] < b.det.bbox[4])

\* the prediction lists answered in the current request, each with the
\* detection list built from it
ListsBuilt ==
    IF status # "returned" THEN {}
    ELSE IF op = "detect"
    THEN { [preds |-> responses[1].predictions, dets |-> detections] }
    ELSE { [preds |-> responses[1].predictions, dets |-> comparison.pickup_damages],
           [preds |-> responses[2].predictions, dets |-> comparison.return_damages] }

\* C13: detect_damages returns one detection per raw prediction, in input
\* order, with the class and confidence of the prediction; nothing is sorted,
\* filtered by confidence, merged or deduplicated.
C13_OnePerPrediction ==
    \A l \in ListsBuilt :
        /\ Len(l.dets) = Len(l.preds)
        /\ \A i \in 1..Len(l.dets) :
              /\ l.dets[i].class = l.preds[i].class
              /\ l.dets[i].confidence = l.preds[i].confidence

\* two predictions of one class, the first with confidence 0.10 (below 0.25)
\* and the second with 0.90, were both kept, in that order
C13_Witness ==
    /\ op = "detect"
    /\ status = "returned"
    /\ Len(responses[1].predictions) = 2
    /\ Len(detections) = 2
    /\ detections[1].class = detections[2].class
    /\ detections[1].confidence = 10
    /\ detections[2].confidence = 90

\* the answer of client.infer holds no prediction: an empty list or no key
NothingPredicted(response) ==
    ~response.raises /\ (~response.has_predictions \/ response.predictions = <<>>)

\* C14: an empty prediction list and a result without 'predictions' both make
\* detect_damages return the empty list without error; on an empty detection
\* list the total estimated cost is 0 and compare_images returns empty
\* new_damages with total_new_cost 0.
C14_EmptyIsValid ==
    /\ (op = "detect" /\ NothingPredicted(responses[1]))
          => /\ status = "returned"
             /\ error = "none"
             /\ detections = <<>>
             /\ report.total_estimated_cost = 0
    /\ (op = "compare" /\ NothingPredicted(responses[1]) /\ Len(responses) = 2
            /\ NothingPredicted(responses[2]))
          => /\ status = "returned"
             /\ error = "none"
             /\ comparison.pickup_damages = <<>>
             /\ comparison.return_damages = <<>>
    /\ (CompareReturned /\ comparison.return_damages = <<>>)
          => /\ comparison.new_damages = <<>>
             /\ comparison.total_new_cost = 0

\* a comparison whose pickup answer has no 'predictions' key and whose return
\* answer is an empty list returned an empty result
C14_Witness ==
    /\ op = "compare"
    /\ Len(responses) = 2
    /\ ~responses[1].raises /\ ~responses[1].has_predictions
    /\ ~responses[2].raises /\ responses[2].has_predictions
    /\ responses[2].predictions = <<>>
    /\ status = "returned"
    /\ comparison.new_damages = <<>>
    /\ comparison.total_new_cost = 0

\* C15: when the inference call raises, detect_damages propagates that error
\* after exactly one inference call and returns no list; compare_images fails
\* as a whole, with no result, when either of its inference calls fails.
C15_InferenceFailurePropagates ==
    /\ op = "detect" =>
          /\ infer_calls = <<"image">>
          /\ Len(responses) = 1
          /\ responses[1].raises =>
                /\ status = "raised"
                /\ error = responses[1].error
                /\ detections = <<>>
                /\ renders = <<>>
    /\ op = "compare" =>
          \A k \in 1..Len(responses) :
              responses[k].raises =>
                  /\ status = "raised"
                  /\ error = responses[k].error
                  /\ comparison = NoComparison
                  /\ Len(infer_calls) = k
    /\ status = "raised" => error \in ErrorKinds

\* the return inference of a comparison raised and the comparison failed with
\* that error
C15_Witness ==
    /\ op = "compare"
    /\ Len(responses) = 2
    /\ ~responses[1].raises
    /\ responses[1].predictions # <<>>
    /\ responses[2].raises
    /\ status = "raised"
    /\ error = responses[2].error

\* C16: draw_detections mutates neither its image nor its detection list; it
\* draws on a copy and returns it; with no detections the returned image is
\* identical to the input, so drawing nothing on its own output changes nothing.
C16_DrawLeavesInput ==
    \A k \in 1..Len(renders) :
        LET r == renders[k]
        IN  /\ r.after.image = r.before.image
            /\ r.after.detections = r.before.detections
            /\ r.before.detections = <<>> => r.after.result = r.before.image
            /\ DrawDetections(r.after.result, <<>>, DefaultColors).result = r.after.result
            /\ DrawDetections(r.after.result, <<>>, DefaultColors).image = r.after.result

\* two detections were drawn: the returned image differs from the input,
\* which is as it was
C16_Witness ==
    \E k \in 1..Len(renders) :
        /\ Len(renders[k].before.detections) = 2
        /\ Len(renders[k].after.result.marks) = 6
        /\ renders[k].after.image = renders[k].before.image
        /\ renders[k].before.image.marks = <<>>

\* C17: the reported total estimated cost is the sum of estimated_cost over
\* all detections, and the severity breakdown counts the detections of each
\* severity, so minor + moderate + severe is the reported number of damages.
C17_Aggregation ==
    (op = "detect" /\ status = "returned") =>
        /\ report.total_damages = Len(detections)
        /\ report.total_estimated_cost = SumAt(detections, Len(detections))
        /\ \A s \in {"minor", "moderate", "severe"} :
              report.severity_breakdown[s] =
                  Cardinality({ i \in 1..Len(detections) : detections[i].severity = s })
        /\ report.severity_breakdown["minor"] + report.severity_breakdown["moderate"]
              + report.severity_breakdown["severe"] = report.total_damages

\* the UI handler summarised a moderate and a severe detection
C17_Witness ==
    /\ op = "detect"
    /\ layer = "ui"
    /\ status = "returned"
    /\ report.total_damages = 2
    /\ report.severity_breakdown["moderate"] = 1
    /\ report.severity_breakdown["severe"] = 1
    /\ report.total_estimated_cost =
           detections[1].estimated_cost + detections[2].estimated_cost

\* C19: compare_images calls the inference service on the pickup image and
\* then on the return image; when the pickup inference fails the return
\* inference is never made, and the diff is computed only after both calls
\* have returned.
C19_InferenceOrder ==
    op = "compare" =>
        /\ Len(responses) = Len(infer_calls)
        /\ responses[1].raises => infer_calls = <<"pickup">>
        /\ ~responses[1].raises => infer_calls = <<"pickup", "return">>
        /\ (status = "returned" \/ comparison # NoComparison) =>
              /\ infer_calls = <<"pickup", "return">>
              /\ ~responses[1].raises
              /\ ~responses[2].raises

\* the pickup inference failed and no second call was made
C19_Witness ==
    /\ op = "compare"
    /\ responses[1].raises
    /\ infer_calls = <<"pickup">>
    /\ status = "raised"

\* C20: new_damages is an order-preserving sub-list of return_damages (its
\* elements are elements of return_damages, in the same order, none twice),
\* so it is no longer than return_damages; pickup_damages and return_damages
\* are the lists detect_damages returned.
C20_NewIsSublist ==
    CompareReturned =>
        LET pos == comparison.new_positions
        IN  /\ Len(comparison.new_damages) = Len(pos)
            /\ \A k \in 1..Len(pos) :
                  /\ pos[k] \in 1..Len(comparison.return_damages)
                  /\ comparison.new_damages[k] = comparison.return_damages[pos[k]]
            /\ \A j, k \in 1..Len(pos) : j < k => pos[j] < pos[k]
            /\ Len(comparison.new_damages) <= Len(comparison.return_damages)
            /\ comparison.pickup_damages = DetectDamages(images[1], responses[1]).value
            /\ comparison.return_damages = DetectDamages(images[2], responses[2]).value

\* two different detections are both new and stand in return order
C20_Witness ==
    /\ CompareReturned
    /\ comparison.pickup_damages # <<>>
    /\ comparison.new_positions = <<1, 2>>
    /\ comparison.return_damages[1] # comparison.return_damages[2]
    /\ comparison.new_damages = comparison.return_damages

---------------------------------------------------------------------------
(* Properties of concurrent calls *)

\* what the finished call of a frame returns when it runs alone with the
\* same arguments and the same inference answers
AloneResult(f) ==
    IF f.kind = "detect"
    THEN DetectDamages(SmallImage, f.answers[1])
    ELSE IF f.kind = "compare"
    THEN LET r == CompareImages(SmallImage, SmallImage,
                                f.answers[1], f.answers[Len(f.answers)])
         IN  [raised |-> r.raised, error |-> r.error,
              value |-> IF r.raised THEN <<>> ELSE r.value]
    ELSE [raised |-> FALSE, error |-> "none",
          value |-> DrawDetections(Picture(SmallImage), f.dets, DefaultColors).result]

\* C18: for any interleaving of detect_damages, compare_images and
\* draw_detections calls of several handlers, each call returns what it
\* returns when run alone, and no call modifies DAMAGE_CLASSES, REPAIR_COSTS
\* or the detector's api_key, model_id and client.
C18_CallsIndependent ==
    /\ detector = InitialDetector
    /\ \A h \in Handlers :
          LET f == frames[h]
          IN  /\ f.pc = "returned" =>
                    /\ ~AloneResult(f).raised
                    /\ f.result = AloneResult(f).value
              /\ f.pc = "raised" =>
                    /\ AloneResult(f).raised
                    /\ f.raised = AloneResult(f).error

\* one handler's detect_damages returned its two detections while the other
\* handler's call was in the middle of building its own list
C18_Witness ==
    \E h, g \in Handlers :
        /\ h # g
        /\ frames[h].kind = "detect"
        /\ frames[h].pc = "returned"
        /\ Len(frames[h].result) = 2
        /\ frames[g].kind = "compare"
        /\ frames[g].pc = "parse"
        /\ frames[g].i = 2
        /\ Len(heap[ListSlot(g)]) = 1

---------------------------------------------------------------------------
(* Order properties of _estimate_severity and REPAIR_COSTS *)

\* minor < moderate < severe
SeverityOrder(s) ==
    CASE s = "minor" -> 1
      [] s = "moderate" -> 2
      [] s = "severe" -> 3

\* boxes (x1, y1, x2, y2) of an image whose damage_ratio is exactly -10 %,
\* ..., 10 %: the thresholds 2, 3, 5 and 8 %, the ratios between and around
\* them, and boxes inverted on one axis or on both
ProbeBoxes(image) ==
    { <<0, 0, k * (image.w \div 10), s * (image.h \div 10)>> :
        k \in -10..10, s \in {-1, 1} }

ProbeArea(box) == (box[3] - box[1]) * (box[4] - box[2])

\* the damage_ratio of a probe box, in percent (a whole number by construction)
ProbePercent(box, image) == (ProbeArea(box) * 100) \div ImageArea(image)

\* the detection's damage_ratio equals the probe's
SameRatio(b, box, image) ==
    BoxArea(b.det) * 100 = ProbePercent(box, image) * ImageArea(b.image)

ProbeSeverity(box, class, image) ==
    estimate_severity(box[1], box[2], box[3], box[4], class, <<image.h, image.w>>)

\* C21: for a fixed class and image size a box of larger area (the product
\* (x2 - x1) * (y2 - y1) the code rates) never gets a lower severity than a
\* box of smaller area, and at the same area ratio a critical class never
\* gets a lower severity than a standard class.
C21_SeverityMonotone ==
    \A b \in Built : \A image \in Images : \A box \in ProbeBoxes(image) :
        /\ (image = b.image /\ ProbeArea(box) >= BoxArea(b.det))
              => SeverityOrder(ProbeSeverity(box, b.det.class, image))
                   >= SeverityOrder(b.det.severity)
        /\ (image = b.image /\ ProbeArea(box) <= BoxArea(b.det))
              => SeverityOrder(ProbeSeverity(box, b.det.class, image))
                   <= SeverityOrder(b.det.severity)
        /\ SameRatio(b, box, image)
              => \A c \in ClassStrings :
                    /\ (c \in CriticalNames /\ b.det.class \notin CriticalNames)
                          => SeverityOrder(ProbeSeverity(box, c, image))
                               >= SeverityOrder(b.det.severity)
                    /\ (c \notin CriticalNames /\ b.det.class \in CriticalNames)
                          => SeverityOrder(ProbeSeverity(box, c, image))
                               <= SeverityOrder(b.det.severity)

\* a standard-class detection rated moderate, with a smaller box of its image
\* rated minor, a larger one rated severe, and a critical class rated severe
\* at the same ratio on the other image size
C21_Witness ==
    \E b \in Built :
        /\ b.det.class \notin CriticalNames
        /\ b.det.severity = "moderate"
        /\ \E small \in ProbeBoxes(b.image), large \in ProbeBoxes(b.image) :
              /\ 0 < ProbeArea(small)
              /\ ProbeArea(small) < BoxArea(b.det)
              /\ BoxArea(b.det) < ProbeArea(large)
              /\ ProbeSeverity(small, b.det.class, b.image) = "minor"
              /\ ProbeSeverity(large, b.det.class, b.image) = "severe"
        /\ \E image \in Images \ {b.image} : \E box \in ProbeBoxes(image) :
              /\ SameRatio(b, box, image)
              /\ ProbeSeverity(box, "Front-Windscreen-Damage", image) = "severe"

\* C22: every estimated_cost that detect_damages produces is a positive
\* integer; in REPAIR_COSTS the cost of every class rises strictly from minor
\* to moderate to severe; so for a known class a higher severity never gives
\* a lower estimated cost.
C22_CostPositiveAndIncreasing ==
    /\ \A c \in DOMAIN REPAIR_COSTS :
          /\ 0 < REPAIR_COSTS[c]["minor"]
          /\ REPAIR_COSTS[c]["minor"] < REPAIR_COSTS[c]["moderate"]
          /\ REPAIR_COSTS[c]["moderate"] < REPAIR_COSTS[c]["severe"]
    /\ \A b \in Built :
          /\ b.det.estimated_cost \in Nat
          /\ b.det.estimated_cost > 0
          /\ b.det.class \in DOMAIN REPAIR_COSTS
                => \A box \in ProbeBoxes(b.image) :
                      LET severity == ProbeSeverity(box, b.det.class, b.image)
                          cost == CostLookup(b.det.class, severity)
                      IN  /\ SeverityOrder(severity) > SeverityOrder(b.det.severity)
                                => cost > b.det.estimated_cost
                          /\ SeverityOrder(severity) < SeverityOrder(b.det.severity)
                                => cost < b.det.estimated_cost
                          /\ SeverityOrder(severity) = SeverityOrder(b.det.severity)
                                => cost = b.det.estimated_cost

\* a moderate detection of a known class was priced between the minor and the
\* severe cost of its class
C22_Witness ==
    \E b \in Built :
        /\ b.det.class \in DOMAIN REPAIR_COSTS
        /\ b.det.severity = "moderate"
        /\ b.det.estimated_cost > CostLookup(b.det.class, "minor")
        /\ b.det.estimated_cost < CostLookup(b.det.class, "severe")
        /\ \E box \in ProbeBoxes(b.image) :
              ProbeSeverity(box, b.det.class, b.image) = "severe"

---------------------------------------------------------------------------
(* Properties of the launcher *)

\* control has left main, by return or by an exception
MainLeft == pc \in {"main_returned", "main_raised", "done"}

\* C23: in mode 3, once the API process has been started it is terminated
\* and joined before main returns, however the run ends: the UI exits, the UI
\* raises, or the launcher is interrupted at any point after the start, the
\* 2-second wait included.
C23_ApiTerminatedAndJoined ==
    (MainLeft /\ api_process.started)
        => (api_process.terminate_called /\ api_process.joined)

=============================================================================
